---- MODULE Spec2Model ----
(***************************************************************************)
(* A model of the autonomous workflow engine:                              *)
(*   - WorkflowEngine   (src/src/engine/workflow_engine.py)                *)
(*   - StepExecutor     (src/src/engine/step_executor.py)                  *)
(*   - ErrorAnalyzer    (src/src/healing/error_analyzer.py)                *)
(*   - RecoveryPlanner  (src/src/healing/recovery_planner.py)              *)
(*                                                                         *)
(* Four specifications share the variables:                                *)
(*   SpecOrder  applies _get_execution_order to every bounded workflow;    *)
(*   Spec       follows one call of WorkflowEngine.execute whose step      *)
(*              bodies may fail;                                           *)
(*   SpecRuns   follows several calls of execute on one engine, with the   *)
(*              step body of the source, which always returns;             *)
(*   SpecExec   follows StepExecutor.execute attempt by attempt.           *)
(* Each specification leaves the variables of the others untouched.        *)
(***************************************************************************)
EXTENDS Integers, Sequences, FiniteSets, TLC

VARIABLES
    \* --- SpecOrder ---
    wf,               \* the workflow.steps list handed to _get_execution_order
    order_result,     \* what the call produced (NoResult before the call)
    \* --- Spec (WorkflowEngine) ---
    now,              \* datetime.now() in milliseconds
    execution_state,  \* self.execution_state: execution_id -> state dict
    pc,               \* per call of execute: where the coroutine stands
    run_wf,           \* per call: the workflow argument
    resume,           \* per call: the resume_from argument
    eid,              \* per call: the local execution_id
    plan,             \* per call: the local execution_order
    lvl,              \* per call: index of the level being gathered
    task,             \* per call: step name -> state of its _execute_step task
    invoked,          \* per call: step name -> number of _execute_step calls
    \* --- SpecExec (StepExecutor) ---
    max_retries,      \* self.max_retries
    execution_metrics,\* self.execution_metrics: step name -> metrics dict
    x_pc,             \* where the current call of StepExecutor.execute stands
    x_step,           \* the call's step_name
    x_validate,       \* whether the call was given a validator
    x_attempt,        \* the loop variable attempt
    x_outcomes,       \* the outcome of each attempt of the call, in order
    x_sleeps,         \* the argument of each asyncio.sleep of the call, in order
    x_result,         \* what the call returned or raised
    x_time,           \* time.time()
    x_calls,          \* calls of execute made so far
    \* --- SpecPlan (RecoveryPlanner) ---
    p_calls,          \* the calls of plan_recovery made so far, with their results
    \* --- SpecAnalyze (ErrorAnalyzer) ---
    a_error,          \* str(error) of the exception handed to analyze
    a_result          \* what analyze returned (NoResult before the call)

engineVars == <<now, execution_state, pc, run_wf, resume, eid, plan, lvl, task,
                invoked>>
orderVars == <<wf, order_result>>
execVars == <<max_retries, execution_metrics, x_pc, x_step, x_validate, x_attempt,
              x_outcomes, x_sleeps, x_result, x_time, x_calls>>
healVars == <<p_calls, a_error, a_result>>
vars == <<wf, order_result, now, execution_state, pc, run_wf, resume, eid, plan, lvl,
          task, invoked, max_retries, execution_metrics, x_pc, x_step, x_validate,
          x_attempt, x_outcomes, x_sleeps, x_result, x_time, x_calls, p_calls,
          a_error, a_result>>

(***************************************************************************)
(* Bounds of the model.                                                    *)
(***************************************************************************)
MaxSteps == 3      \* longest workflow.steps list given to the order function
MaxRuns == 2       \* calls of execute on the one engine
MaxClock == 1      \* last millisecond the clock reaches
MaxRetries == 4    \* largest max_retries a StepExecutor is built with
MaxCalls == 2      \* calls of StepExecutor.execute on the one executor
MaxPlans == 2      \* calls of plan_recovery on the one planner
MaxWords == 2      \* words of the longest message handed to analyze

(***************************************************************************)
(* Python values.  A str used as a dict key or a status is a TLA+ string;  *)
(* an error message is a tuple of characters so that `pattern in message`  *)
(* is a real substring search.  Values stored in dicts are wrapped in      *)
(* one-field records so that values of different Python types compare.     *)
(***************************************************************************)
None == [none |-> TRUE]
PyStr(s) == [str |-> s]
PyMsg(m) == [msg |-> m]
PyTime(t) == [time |-> t]
PyDict(d) == [dict |-> d]

EmptyDict == [k \in {} |-> None]

\* d[k] = v on a Python dict
DictSet(d, k, v) == [kk \in (DOMAIN d) \cup {k} |-> IF kk = k THEN v ELSE d[kk]]

\* s1 in s2, for Python strings as character tuples
Contains(pattern, s) ==
    \E i \in 0..(Len(s) - Len(pattern)) : SubSeq(s, i + 1, i + Len(pattern)) = pattern

\* the elements of a list
Range(s) == {s[i] : i \in 1..Len(s)}

(***************************************************************************)
(* Error messages that step bodies raise in the scenarios.                 *)
(***************************************************************************)
MsgConnectionRefused ==
    <<"C","o","n","n","e","c","t","i","o","n"," ","r","e","f","u","s","e","d">>
MsgInvalidData == <<"I","n","v","a","l","i","d"," ","d","a","t","a">>
MsgReadTimeout == <<"R","e","a","d"," ","t","i","m","e","o","u","t">>
MsgResourceBusy == <<"R","e","s","o","u","r","c","e"," ","b","u","s","y">>
MsgBoom == <<"b","o","o","m">>
MsgCircular ==
    <<"C","i","r","c","u","l","a","r"," ","d","e","p","e","n","d","e","n","c","y",
      " ","d","e","t","e","c","t","e","d">>

(***************************************************************************)
(* ErrorAnalyzer                                                           *)
(***************************************************************************)
\* self.error_patterns, in insertion order
error_patterns ==
    << <<(<<"t","i","m","e","o","u","t">>), "timeout">>,
       <<(<<"R","e","s","o","u","r","c","e">>), "resource_exhausted">>,
       <<(<<"I","n","v","a","l","i","d">>), "invalid_input">>,
       <<(<<"C","o","n","n","e","c","t","i","o","n">>), "external_service">> >>

AnalyzeCategoryLastMatch(error_str) ==
    LET hits == {i \in 1..Len(error_patterns) :
                    Contains(error_patterns[i][1], error_str)}
    IN  IF hits = {} THEN "unknown"
        ELSE error_patterns[CHOOSE i \in hits : \A j \in hits : i >= j][2]

\* the category part of ErrorAnalyzer.analyze: first pattern in table order
\* that occurs in the message, else UNKNOWN
AnalyzeCategory(error_str) ==
    LET hits == {i \in 1..Len(error_patterns) :
                    Contains(error_patterns[i][1], error_str)}
    IN  IF hits = {} THEN "unknown"
        ELSE error_patterns[CHOOSE i \in hits : \A j \in hits : i <= j][2]

\* _get_recommendations: the list of the category, else the generic one
get_recommendations(category) ==
    IF category = "timeout"
    THEN <<"Increase timeout threshold", "Optimize step performance",
           "Split into smaller steps">>
    ELSE IF category = "resource_exhausted"
    THEN <<"Increase resource allocation", "Implement rate limiting",
           "Add step batching">>
    ELSE IF category = "invalid_input"
    THEN <<"Validate input data", "Add data transformation",
           "Check upstream step output">>
    ELSE IF category = "external_service"
    THEN <<"Check service status", "Implement circuit breaker",
           "Add exponential backoff">>
    ELSE <<"Retry with backoff">>

\* _calculate_confidence, in tenths
calculate_confidence(error_str) ==
    IF Len(error_str) > 50 THEN 9
    ELSE IF Len(error_str) > 20 THEN 7
    ELSE 5

\* ErrorAnalyzer.analyze: the ErrorAnalysis it returns
analyze(error_str) ==
    LET category == AnalyzeCategory(error_str)
    IN  [category |-> category,
         root_cause |-> error_str,
         confidence |-> calculate_confidence(error_str),
         recommendations |-> get_recommendations(category)]

(***************************************************************************)
(* RecoveryPlanner                                                         *)
(***************************************************************************)
\* an f-string "text {step_name} text" is the tuple of its parts
PlanRecoveryRetryRowsMerged(step_name, error_category, context) ==
    IF error_category \in {"timeout", "resource_exhausted"}
    THEN [strategy |-> "retry",
          steps |-> << <<"Increase timeout for ", step_name>>,
                       <<"Retry ", step_name, " with backoff">> >>,
          max_attempts |-> 3, escalation_enabled |-> TRUE]
    ELSE IF error_category = "invalid_input"
    THEN [strategy |-> "skip",
          steps |-> << <<"Validate input for ", step_name>>,
                       <<"Skip ", step_name, " or use default">> >>,
          max_attempts |-> 1, escalation_enabled |-> TRUE]
    ELSE [strategy |-> "escalate",
          steps |-> << <<"Notify administrator">> >>,
          max_attempts |-> 0, escalation_enabled |-> TRUE]

plan_recovery(step_name, error_category, context) ==
    IF error_category = "timeout"
    THEN [strategy |-> "retry",
          steps |-> << <<"Increase timeout for ", step_name>>,
                       <<"Retry ", step_name, " with backoff">> >>,
          max_attempts |-> 3, escalation_enabled |-> TRUE]
    ELSE IF error_category = "resource_exhausted"
    THEN [strategy |-> "retry",
          steps |-> << <<"Wait for resource availability">>,
                       <<"Retry ", step_name>> >>,
          max_attempts |-> 5, escalation_enabled |-> FALSE]
    ELSE IF error_category = "invalid_input"
    THEN [strategy |-> "skip",
          steps |-> << <<"Validate input for ", step_name>>,
                       <<"Skip ", step_name, " or use default">> >>,
          max_attempts |-> 1, escalation_enabled |-> TRUE]
    ELSE [strategy |-> "escalate",
          steps |-> << <<"Notify administrator">> >>,
          max_attempts |-> 0, escalation_enabled |-> TRUE]

\* the plan the healing components produce for a raised message
PlanFor(step_name, error_str) ==
    plan_recovery(step_name, AnalyzeCategory(error_str), None)

(***************************************************************************)
(* WorkflowEngine._get_execution_order                                     *)
(*                                                                         *)
(* A StepDefinition is [name, depends_on]; depends_on is kept as a set,    *)
(* since the code only asks `dep in completed` of each element.  Step      *)
(* names are unique within a workflow (the data model's invariant);        *)
(* nothing else is assumed: dependencies may form cycles or name steps     *)
(* that the workflow does not have.                                        *)
(***************************************************************************)
StepDefinition(n, deps) == [name |-> n, depends_on |-> deps]

Return(v) == [kind |-> "return", value |-> v]
Raise(type, m) == [kind |-> "raise", type |-> type, message |-> m]
NoResult == [kind |-> "none"]

\* lines 55-60: one pass over workflow.steps, in list order
CurrentLevelNoDepCheck(steps, completed) ==
    LET ready == SelectSeq(steps, LAMBDA step : step.name \notin completed)
    IN  [i \in 1..Len(ready) |-> ready[i].name]

CurrentLevelDanglingSatisfied(steps, completed) ==
    LET names == {steps[i].name : i \in 1..Len(steps)}
        ready == SelectSeq(steps, LAMBDA step :
                     /\ step.name \notin completed
                     /\ \A dep \in step.depends_on :
                            dep \in completed \/ dep \notin names)
    IN  [i \in 1..Len(ready) |-> ready[i].name]

CurrentLevelOneAtATime(steps, completed) ==
    LET ready == SelectSeq(steps, LAMBDA step :
                     /\ step.name \notin completed
                     /\ \A dep \in step.depends_on : dep \in completed)
    IN  IF Len(ready) = 0 THEN << >> ELSE <<ready[1].name>>

\* lines 55-60: one pass over workflow.steps
CurrentLevel(steps, completed) ==
    LET ready == SelectSeq(steps, LAMBDA step :
                     /\ step.name \notin completed
                     /\ \A dep \in step.depends_on : dep \in completed)
    IN  [i \in 1..Len(ready) |-> ready[i].name]

\* lines 54-68: the while loop, from the locals (completed, order)
RECURSIVE OrderLoopPartial(_, _, _)
OrderLoopPartial(steps, completed, order) ==
    IF Cardinality(completed) < Len(steps)
    THEN LET current_level == CurrentLevel(steps, completed)
         IN  IF current_level = <<>>
             THEN Return(order)
             ELSE OrderLoopPartial(steps, completed \cup Range(current_level),
                                   Append(order, current_level))
    ELSE Return(order)

RECURSIVE OrderLoop(_, _, _)
OrderLoop(steps, completed, order) ==
    IF Cardinality(completed) < Len(steps)
    THEN LET current_level == CurrentLevel(steps, completed)
         IN  IF current_level = <<>>
             THEN Raise("ValueError", MsgCircular)
             ELSE OrderLoop(steps, completed \cup Range(current_level),
                            Append(order, current_level))
    ELSE Return(order)

\* lines 46-68
GetExecutionOrder(steps) == OrderLoop(steps, {}, <<>>)

(***************************************************************************)
(* SpecOrder: _get_execution_order applied to every workflow of at most    *)
(* MaxSteps steps whose dependencies are among MaxSteps names.             *)
(***************************************************************************)
NamePool == <<"extract", "validate", "transform", "load", "report">>
OrderNames == {NamePool[i] : i \in 1..MaxSteps}

\* a workflow.steps list of n steps.  The code never looks into a name, so
\* the steps carry the first n names of the pool in list order; every
\* dependency graph over them, in every list order, is one of these lists up
\* to renaming.  A dependency may name a step the list does not have.
WorkflowSteps(n, deps) ==
    [i \in 1..n |-> StepDefinition(NamePool[i], deps[i])]

NoWorkflow == <<>>

InitOrder ==
    /\ \E n \in 0..MaxSteps :
         \E deps \in [1..n -> SUBSET OrderNames] : wf = WorkflowSteps(n, deps)
    /\ order_result = NoResult

CallGetExecutionOrder ==
    /\ order_result = NoResult
    /\ order_result' = GetExecutionOrder(wf)
    /\ UNCHANGED wf
    /\ UNCHANGED <<engineVars, execVars, healVars>>

(***************************************************************************)
(* Spec: WorkflowEngine.execute                                            *)
(*                                                                         *)
(* The engine runs on one asyncio event loop: a coroutine runs without     *)
(* interruption from one await to the next.  execute awaits only at        *)
(* asyncio.gather (line 103); _execute_step awaits only at its sleep       *)
(* (line 129).  Each action below is one such uninterrupted stretch.       *)
(*                                                                         *)
(* The body of _execute_step is a placeholder for the step's work         *)
(* ("Simulate work").  In Spec its outcome is an input of the model: it    *)
(* returns its result or raises an Exception carrying one of StepErrors.   *)
(* In SpecRuns it always returns, as the placeholder does.                 *)
(***************************************************************************)
Runs == 1..MaxRuns

WfPipeline ==
    [name |-> "pipeline",
     steps |-> << StepDefinition("extract", {}),
                  StepDefinition("validate", {"extract"}),
                  StepDefinition("transform", {"validate"}) >>]

\* two independent steps, then a step named like a field of the state dict
WfFanIn ==
    [name |-> "fan_in",
     steps |-> << StepDefinition("extract", {}),
                  StepDefinition("validate", {}),
                  StepDefinition("status", {"extract", "validate"}) >>]

WfCyclic ==
    [name |-> "cyclic",
     steps |-> << StepDefinition("extract", {}),
                  StepDefinition("validate", {"transform"}),
                  StepDefinition("transform", {"validate"}) >>]

\* a step called "status" that is not in the last level
WfStatusFirst ==
    [name |-> "status_first",
     steps |-> << StepDefinition("status", {}),
                  StepDefinition("validate", {"status"}) >>]

WfEmpty == [name |-> "empty", steps |-> << >>]

EngineWorkflows == {WfPipeline, WfFanIn, WfCyclic, WfStatusFirst, WfEmpty}

StepErrors == {MsgConnectionRefused, MsgInvalidData, MsgReadTimeout}

StepNamesOf(w) == {w.steps[i].name : i \in 1..Len(w.steps)}

\* f"{workflow.name}_{int(datetime.now().timestamp() * 1000)}": the name, an
\* underscore and the decimal milliseconds.  The digits after the last
\* underscore determine the number and what precedes it the name, so the
\* string is kept as the pair it encodes.
ExecutionId(workflow_name, t) == <<workflow_name, t>>

\* lines 86-91
FreshState(workflow_name, t) ==
    DictSet(DictSet(DictSet(DictSet(EmptyDict,
        "workflow", PyStr(workflow_name)),
        "status", PyStr("running")),
        "results", PyDict(EmptyDict)),
        "started_at", PyTime(t))

\* line 130
StepResult(step_name) ==
    PyDict(DictSet(DictSet(EmptyDict, "step", PyStr(step_name)),
                   "status", PyStr("success")))

\* lines 107-110
FailureRecord(message) ==
    PyDict(DictSet(DictSet(EmptyDict, "status", PyStr("failed")),
                   "error", PyMsg(message)))

TaskNone == [kind |-> "none"]
TaskCreated == [kind |-> "created"]
TaskRunning == [kind |-> "running"]
Terminal(t) == t.kind \in {"return", "raise"}

\* lines 105-112: zip(level, results), in list order, on the state dict
RECURSIVE RecordResults(_, _, _, _)
RecordResults(state, level, results, i) ==
    IF i > Len(level) THEN state
    ELSE LET step_name == level[i]
             result == results[step_name]
             next == IF result.kind = "raise"
                     THEN DictSet(state, step_name, FailureRecord(result.message))
                     ELSE DictSet(state, "results",
                              PyDict(DictSet(state["results"].dict, step_name,
                                             result.value)))
         IN  RecordResults(next, level, results, i + 1)

\* lines 114 and 119: the run went through every level
Finalize(state, t) ==
    DictSet(DictSet(state, "status", PyStr("completed")), "completed_at", PyTime(t))

\* lines 98-101: the coroutines of one level are created, none has run yet
CreateTasksIgnoringLevel(tasks, level) ==
    [s \in DOMAIN tasks |-> IF tasks[s] = TaskNone THEN TaskCreated ELSE tasks[s]]

CreateTasks(tasks, level) ==
    [s \in DOMAIN tasks |-> IF s \in Range(level) THEN TaskCreated ELSE tasks[s]]

\* line 103: gather returns once every awaitable of the level is done
GatherReady(r) ==
    \A s \in Range(plan[r][lvl[r]]) : Terminal(task[r][s])

InitEngine ==
    /\ now = 0
    /\ execution_state = EmptyDict
    /\ pc = [r \in Runs |-> "idle"]
    /\ run_wf = [r \in Runs |-> WfEmpty]
    /\ resume = [r \in Runs |-> None]
    /\ eid = [r \in Runs |-> <<"", 0>>]
    /\ plan = [r \in Runs |-> << >>]
    /\ lvl = [r \in Runs |-> 0]
    /\ task = [r \in Runs |-> EmptyDict]
    /\ invoked = [r \in Runs |-> EmptyDict]

\* the clock moves on between two uninterrupted stretches
Tick ==
    /\ now < MaxClock
    /\ now' = now + 1
    /\ UNCHANGED <<execution_state, pc, run_wf, resume, eid, plan, lvl, task, invoked>>
    /\ UNCHANGED <<orderVars, execVars, healVars>>

\* lines 85-103 of call r up to its first await (calls are numbered in the
\* order they begin); for a workflow without
\* levels, up to the return of line 120.  _get_execution_order (line 93) is
\* called outside the try block: its ValueError leaves execute at once.
\* resume_from (line 73) is not read by any statement of execute.
Execute(r, workflow, resume_from) ==
    /\ pc[r] = "idle"
    /\ \A q \in Runs : q < r => pc[q] # "idle"
    /\ LET execution_id == ExecutionId(workflow.name, now)
           created == DictSet(execution_state, execution_id,
                              FreshState(workflow.name, now))
           execution_order == GetExecutionOrder(workflow.steps)
           names == StepNamesOf(workflow)
       IN  /\ run_wf' = [run_wf EXCEPT ![r] = workflow]
           /\ resume' = [resume EXCEPT ![r] = resume_from]
           /\ eid' = [eid EXCEPT ![r] = execution_id]
           /\ invoked' = [invoked EXCEPT ![r] = [s \in names |-> 0]]
           /\ IF execution_order.kind = "raise"
              THEN /\ pc' = [pc EXCEPT ![r] = "raised"]
                   /\ execution_state' = created
                   /\ task' = [task EXCEPT ![r] = [s \in names |-> TaskNone]]
                   /\ UNCHANGED <<plan, lvl>>
              ELSE IF execution_order.value = << >>
              THEN /\ pc' = [pc EXCEPT ![r] = "done"]
                   /\ execution_state' =
                          DictSet(created, execution_id,
                                  Finalize(created[execution_id], now))
                   /\ task' = [task EXCEPT ![r] = [s \in names |-> TaskNone]]
                   /\ plan' = [plan EXCEPT ![r] = execution_order.value]
                   /\ UNCHANGED lvl
              ELSE /\ pc' = [pc EXCEPT ![r] = "gather"]
                   /\ execution_state' = created
                   /\ plan' = [plan EXCEPT ![r] = execution_order.value]
                   /\ lvl' = [lvl EXCEPT ![r] = 1]
                   /\ task' = [task EXCEPT ![r] =
                                 CreateTasks([s \in names |-> TaskNone],
                                             execution_order.value[1])]
    /\ UNCHANGED now
    /\ UNCHANGED <<orderVars, execVars, healVars>>

\* lines 128-129: the task of step s starts and suspends in its work
StartStep(r, s) ==
    /\ pc[r] = "gather"
    /\ s \in DOMAIN task[r]
    /\ task[r][s] = TaskCreated
    /\ task' = [task EXCEPT ![r][s] = TaskRunning]
    /\ invoked' = [invoked EXCEPT ![r][s] = @ + 1]
    /\ UNCHANGED <<now, execution_state, pc, run_wf, resume, eid, plan, lvl>>
    /\ UNCHANGED <<orderVars, execVars, healVars>>

\* line 130: the step's work returns
StepReturns(r, s) ==
    /\ pc[r] = "gather"
    /\ s \in DOMAIN task[r]
    /\ task[r][s] = TaskRunning
    /\ task' = [task EXCEPT ![r][s] = Return(StepResult(s))]
    /\ UNCHANGED <<now, execution_state, pc, run_wf, resume, eid, plan, lvl, invoked>>
    /\ UNCHANGED <<orderVars, execVars, healVars>>

\* lines 131-132: the step's work fails; gather keeps the exception as the
\* task's result (return_exceptions=True)
StepRaises(r, s, message) ==
    /\ pc[r] = "gather"
    /\ s \in DOMAIN task[r]
    /\ task[r][s] = TaskRunning
    /\ task' = [task EXCEPT ![r][s] = Raise("Exception", message)]
    /\ UNCHANGED <<now, execution_state, pc, run_wf, resume, eid, plan, lvl, invoked>>
    /\ UNCHANGED <<orderVars, execVars, healVars>>

\* lines 103-120: gather returns, the outcomes of the level are written to
\* the state dict, and execute goes on to the next level's gather or, after
\* the last level, to its return.  No statement of the try block raises an
\* Exception (gather hands the steps' exceptions back as results), so the
\* except branch of lines 115-117 is never entered.
GatherReturns(r) ==
    /\ pc[r] = "gather"
    /\ GatherReady(r)
    /\ LET execution_id == eid[r]
           level == plan[r][lvl[r]]
           recorded == RecordResults(execution_state[execution_id], level, task[r], 1)
       IN  IF lvl[r] < Len(plan[r])
           THEN /\ execution_state' = DictSet(execution_state, execution_id, recorded)
                /\ lvl' = [lvl EXCEPT ![r] = @ + 1]
                /\ task' = [task EXCEPT ![r] = CreateTasks(@, plan[r][lvl[r] + 1])]
                /\ UNCHANGED pc
           ELSE /\ execution_state' = DictSet(execution_state, execution_id,
                                              Finalize(recorded, now))
                /\ pc' = [pc EXCEPT ![r] = "done"]
                /\ UNCHANGED <<lvl, task>>
    /\ UNCHANGED <<now, run_wf, resume, eid, plan, invoked>>
    /\ UNCHANGED <<orderVars, execVars, healVars>>

EngineStepNames == UNION {StepNamesOf(w) : w \in EngineWorkflows}

\* resume_from: Optional[str], None or the name of a step of the workflow
ResumePoints(workflow) == {None} \cup {PyStr(n) : n \in StepNamesOf(workflow)}

\* one call of execute; the work of a step may fail
Next ==
    \/ Tick
    \/ \E workflow \in EngineWorkflows :
           \E resume_from \in ResumePoints(workflow) : Execute(1, workflow, resume_from)
    \/ \E s \in EngineStepNames : StartStep(1, s)
    \/ \E s \in EngineStepNames : StepReturns(1, s)
    \/ \E s \in EngineStepNames, message \in StepErrors : StepRaises(1, s, message)
    \/ GatherReturns(1)

\* several calls of execute on the one event loop
NextRuns ==
    \/ Tick
    \/ \E r \in Runs, workflow \in EngineWorkflows : Execute(r, workflow, None)
    \/ \E r \in Runs, s \in EngineStepNames : StartStep(r, s)
    \/ \E r \in Runs, s \in EngineStepNames : StepReturns(r, s)
    \/ \E r \in Runs : GatherReturns(r)

(***************************************************************************)
(* SpecExec: StepExecutor.execute                                          *)
(*                                                                         *)
(* One executor, built with some max_retries, serves MaxCalls calls one    *)
(* after the other.  The work unit is an input: each attempt returns a     *)
(* value, exceeds base_timeout (asyncio.wait_for raises TimeoutError) or   *)
(* raises an Exception.  The validator, when one is given, accepts the     *)
(* value "ok" and rejects "bad".  time.time() is counted in the units of   *)
(* asyncio.sleep: it moves on while the executor sleeps, and the run time  *)
(* of the work unit itself is not counted.                                 *)
(***************************************************************************)
MsgValidationFailed ==
    <<"R","e","s","u","l","t"," ","v","a","l","i","d","a","t","i","o","n"," ",
      "f","a","i","l","e","d">>

ExecStepNames == {"extract", "validate"}
TaskValues == {"ok", "bad"}
TaskErrors == {MsgBoom, MsgReadTimeout}
validate(result) == result = "ok"

OutReturn(v) == [out |-> "return", value |-> v]
OutTimeout == [out |-> "timeout"]
OutRaise(type, m) == [out |-> "raise", type |-> type, message |-> m]

\* lines 48-52
FreshMetrics(t) ==
    DictSet(DictSet(DictSet(EmptyDict, "attempts", 0), "start_time", t),
            "success", FALSE)

CountAttemptTwice(metrics, step_name, attempt) ==
    DictSet(metrics, step_name, DictSet(metrics[step_name], "attempts", attempt + 2))

\* line 55
CountAttempt(metrics, step_name, attempt) ==
    DictSet(metrics, step_name, DictSet(metrics[step_name], "attempts", attempt + 1))

\* lines 76 and 80: whether another attempt follows the failed one
RetriesLeftOffByOne(attempt) == attempt < max_retries

RetriesLeft(attempt) == attempt < max_retries - 1

BackoffLinear(attempt) == attempt + 1

\* lines 77 and 81
Backoff(attempt) == 2 ^ attempt

LoopEnteredAlways(attempt) == TRUE

\* line 54: for attempt in range(self.max_retries) has an iteration for attempt
LoopEntered(attempt) == attempt < max_retries

RejectedNever(value) == FALSE

\* line 65: validate and not validate(result)
Rejected(value) == x_validate /\ ~validate(value)

InitExec ==
    /\ max_retries \in 0..MaxRetries
    /\ execution_metrics = EmptyDict
    /\ x_pc = "idle"
    /\ x_step = ""
    /\ x_validate = FALSE
    /\ x_attempt = 0
    /\ x_outcomes = << >>
    /\ x_sleeps = << >>
    /\ x_result = NoResult
    /\ x_time = 0
    /\ x_calls = 0

\* lines 48-59: the call begins; with an empty range(max_retries) it falls
\* through to line 86, otherwise it suspends in wait_for of attempt 0
ExecCall(step_name, with_validator) ==
    /\ x_pc \in {"idle", "returned", "raised"}
    /\ x_calls < MaxCalls
    /\ x_calls' = x_calls + 1
    /\ x_step' = step_name
    /\ x_validate' = with_validator
    /\ x_attempt' = 0
    /\ x_outcomes' = << >>
    /\ x_sleeps' = << >>
    /\ LET created == DictSet(execution_metrics, step_name, FreshMetrics(x_time))
       IN  IF LoopEntered(0)
           THEN /\ execution_metrics' = CountAttempt(created, step_name, 0)
                /\ x_pc' = "await"
                /\ x_result' = NoResult
           ELSE /\ execution_metrics' = created
                /\ x_pc' = "returned"
                /\ x_result' = Return(None)
    /\ UNCHANGED <<max_retries, x_time>>
    /\ UNCHANGED <<orderVars, engineVars, healVars>>

\* lines 59-73: the work unit returns a value that passes validation
AttemptSucceeds(value) ==
    /\ x_pc = "await"
    /\ ~Rejected(value)
    /\ x_outcomes' = Append(x_outcomes, OutReturn(value))
    /\ execution_metrics' =
           DictSet(execution_metrics, x_step,
               DictSet(DictSet(execution_metrics[x_step], "success", TRUE),
                       "duration",
                       x_time - execution_metrics[x_step]["start_time"]))
    /\ x_pc' = "returned"
    /\ x_result' = Return(value)
    /\ UNCHANGED <<max_retries, x_step, x_validate, x_attempt, x_sleeps, x_time, x_calls>>
    /\ UNCHANGED <<orderVars, engineVars, healVars>>

\* lines 79-84: an Exception other than TimeoutError ends the attempt
FailedAttempt(raised) ==
    IF RetriesLeft(x_attempt)
    THEN /\ x_sleeps' = Append(x_sleeps, Backoff(x_attempt))
         /\ x_pc' = "sleep"
         /\ x_result' = NoResult
    ELSE /\ x_pc' = "raised"
         /\ x_result' = Raise(raised.type, raised.message)
         /\ UNCHANGED x_sleeps

\* lines 65-66, 79-84: the work unit returns a value the validator rejects
AttemptRejected(value) ==
    /\ x_pc = "await"
    /\ Rejected(value)
    /\ x_outcomes' = Append(x_outcomes, OutRaise("ValueError", MsgValidationFailed))
    /\ FailedAttempt(OutRaise("ValueError", MsgValidationFailed))
    /\ UNCHANGED <<max_retries, execution_metrics, x_step, x_validate, x_attempt, x_time,
                   x_calls>>
    /\ UNCHANGED <<orderVars, engineVars, healVars>>

\* lines 59-62, 79-84: the work unit raises
AttemptRaises(message) ==
    /\ x_pc = "await"
    /\ x_outcomes' = Append(x_outcomes, OutRaise("Exception", message))
    /\ FailedAttempt(OutRaise("Exception", message))
    /\ UNCHANGED <<max_retries, execution_metrics, x_step, x_validate, x_attempt, x_time,
                   x_calls>>
    /\ UNCHANGED <<orderVars, engineVars, healVars>>

\* lines 59-62, 75-78, 86: wait_for gives up on the work unit; after the
\* last attempt the loop ends and the call returns None
AttemptTimesOut ==
    /\ x_pc = "await"
    /\ x_outcomes' = Append(x_outcomes, OutTimeout)
    /\ IF RetriesLeft(x_attempt)
       THEN /\ x_sleeps' = Append(x_sleeps, Backoff(x_attempt))
            /\ x_pc' = "sleep"
            /\ x_result' = NoResult
       ELSE /\ x_pc' = "returned"
            /\ x_result' = Return(None)
            /\ UNCHANGED x_sleeps
    /\ UNCHANGED <<max_retries, execution_metrics, x_step, x_validate, x_attempt, x_time,
                   x_calls>>
    /\ UNCHANGED <<orderVars, engineVars, healVars>>

\* lines 78 or 82, then 54-59: the sleep ends and the next attempt begins
SleepEnds ==
    /\ x_pc = "sleep"
    /\ x_time' = x_time + x_sleeps[Len(x_sleeps)]
    /\ x_attempt' = x_attempt + 1
    /\ execution_metrics' = CountAttempt(execution_metrics, x_step, x_attempt + 1)
    /\ x_pc' = "await"
    /\ UNCHANGED <<max_retries, x_step, x_validate, x_outcomes, x_sleeps, x_result, x_calls>>
    /\ UNCHANGED <<orderVars, engineVars, healVars>>

NextExec ==
    \/ \E step_name \in ExecStepNames, with_validator \in BOOLEAN :
           ExecCall(step_name, with_validator)
    \/ \E value \in TaskValues : AttemptSucceeds(value)
    \/ \E value \in TaskValues : AttemptRejected(value)
    \/ \E message \in TaskErrors : AttemptRaises(message)
    \/ AttemptTimesOut
    \/ SleepEnds

(***************************************************************************)
(* RecoveryPlanner.plan_recovery called on one planner.                    *)
(***************************************************************************)
PlanStepNames == {"extract", "validate"}

\* error_category: str, the values of ErrorCategory and two that are none
PlanCategories ==
    {"timeout", "resource_exhausted", "invalid_input", "external_service",
     "unknown", "TIMEOUT", ""}

\* context: Optional[Dict[str, Any]]
PlanContexts == {None, PyDict(EmptyDict), PyDict(DictSet(EmptyDict, "attempt", 2))}

InitPlan == p_calls = << >>

PlanRecovery(step_name, error_category, context) ==
    /\ Len(p_calls) < MaxPlans
    /\ p_calls' = Append(p_calls,
                         [step_name |-> step_name,
                          error_category |-> error_category,
                          context |-> context,
                          plan |-> plan_recovery(step_name, error_category, context)])
    /\ UNCHANGED <<a_error, a_result>>
    /\ UNCHANGED <<orderVars, engineVars, execVars>>

NextPlan ==
    \E step_name \in PlanStepNames, error_category \in PlanCategories,
       context \in PlanContexts : PlanRecovery(step_name, error_category, context)

(***************************************************************************)
(* ErrorAnalyzer.analyze called on the message of an exception.            *)
(***************************************************************************)
WordTimeout == <<"t","i","m","e","o","u","t">>
WordResource == <<"R","e","s","o","u","r","c","e">>
WordInvalid == <<"I","n","v","a","l","i","d">>
WordConnection == <<"C","o","n","n","e","c","t","i","o","n">>
WordLowerResource == <<"r","e","s","o","u","r","c","e">>
WordTimeoutCapital == <<"T","i","m","e","o","u","t">>
WordFailed == <<"f","a","i","l","e","d">>

Words ==
    {WordTimeout, WordResource, WordInvalid, WordConnection, WordLowerResource,
     WordTimeoutCapital, WordFailed}

RECURSIVE Join(_)
\* " ".join(words)
Join(words) ==
    IF Len(words) = 0 THEN << >>
    ELSE IF Len(words) = 1 THEN words[1]
    ELSE words[1] \o <<" ">> \o Join(Tail(words))

\* str(error) of the exceptions handed to analyze
AnalyzeMessages == {Join(ws) : ws \in UNION {[1..n -> Words] : n \in 0..MaxWords}}

InitAnalyze ==
    /\ a_error \in AnalyzeMessages
    /\ a_result = NoResult

Analyze ==
    /\ a_result = NoResult
    /\ a_result' = Return(analyze(a_error))
    /\ UNCHANGED <<a_error, p_calls>>
    /\ UNCHANGED <<orderVars, engineVars, execVars>>

NextAnalyze == Analyze

(***************************************************************************)
(* The specifications.                                                     *)
(***************************************************************************)
\* the healing components of the specifications that never call them
HealIdle ==
    /\ p_calls = << >>
    /\ a_error = << >>
    /\ a_result = NoResult

\* the executor of the specifications that never call it
ExecIdle ==
    /\ max_retries = 3
    /\ execution_metrics = EmptyDict
    /\ x_pc = "idle"
    /\ x_step = ""
    /\ x_validate = FALSE
    /\ x_attempt = 0
    /\ x_outcomes = << >>
    /\ x_sleeps = << >>
    /\ x_result = NoResult
    /\ x_time = 0
    /\ x_calls = 0

Init ==
    /\ InitEngine
    /\ wf = NoWorkflow
    /\ order_result = NoResult
    /\ ExecIdle
    /\ HealIdle

Spec == Init /\ [][Next]_vars

SpecRuns == Init /\ [][NextRuns]_vars

InitOrderSpec == InitOrder /\ InitEngine /\ ExecIdle /\ HealIdle

NextOrder == CallGetExecutionOrder

SpecOrder == InitOrderSpec /\ [][NextOrder]_vars

InitExecSpec ==
    /\ InitExec
    /\ InitEngine
    /\ wf = NoWorkflow
    /\ order_result = NoResult
    /\ HealIdle

SpecExec == InitExecSpec /\ [][NextExec]_vars

InitPlanSpec ==
    /\ InitPlan
    /\ a_error = << >>
    /\ a_result = NoResult
    /\ InitEngine
    /\ wf = NoWorkflow
    /\ order_result = NoResult
    /\ ExecIdle

SpecPlan == InitPlanSpec /\ [][NextPlan]_vars

InitAnalyzeSpec ==
    /\ InitAnalyze
    /\ p_calls = << >>
    /\ InitEngine
    /\ wf = NoWorkflow
    /\ order_result = NoResult
    /\ ExecIdle

SpecAnalyze == InitAnalyzeSpec /\ [][NextAnalyze]_vars

(***************************************************************************)
(* Properties of _get_execution_order, checked under SpecOrder.            *)
(***************************************************************************)
WfNames == {wf[i].name : i \in 1..Len(wf)}
DepsOf(n) == wf[CHOOSE i \in 1..Len(wf) : wf[i].name = n].depends_on

\* every dependency names a step of the workflow
DepsResolve == \A n \in WfNames : DepsOf(n) \subseteq WfNames

\* the dependency graph has a cycle: some non-empty set of steps in which
\* every step depends on a step of the set
HasCycle ==
    \E S \in (SUBSET WfNames) \ {{}} : \A n \in S : DepsOf(n) \cap S # {}

\* the places of a name in a list of levels
Places(order, n) ==
    {<<k, i>> \in (1..Len(order)) \X (1..MaxSteps + 1) :
        i <= Len(order[k]) /\ order[k][i] = n}

LevelOf(order, n) == CHOOSE k \in 1..Len(order) : n \in Range(order[k])

\* C1: for an acyclic workflow whose dependencies all name its steps,
\* _get_execution_order returns levels in which every step stands exactly
\* once and every dependency of a step stands in a strictly earlier level.
C1_LevelsRespectDependencies ==
    (order_result # NoResult /\ ~HasCycle /\ DepsResolve) =>
        /\ order_result.kind = "return"
        /\ LET order == order_result.value
           IN  /\ \A n \in WfNames : Cardinality(Places(order, n)) = 1
               /\ \A k \in 1..Len(order) : Range(order[k]) \subseteq WfNames
               /\ \A n \in WfNames : \A dep \in DepsOf(n) :
                      LevelOf(order, dep) < LevelOf(order, n)

\* a plan for three steps, two of them waiting in one level for the third
C1_Witness ==
    /\ order_result # NoResult
    /\ ~HasCycle /\ DepsResolve
    /\ Len(wf) = 3
    /\ order_result.kind = "return"
    /\ Len(order_result.value) = 2
    /\ Len(order_result.value[2]) = 2

\* C2: for a workflow whose dependency graph has a cycle (a step depending
\* on itself included), _get_execution_order ends with the circular
\* dependency error and hands back no plan, not even the levels built
\* before the cycle was met.
C2_CycleRaisesWithoutPlan ==
    (order_result # NoResult /\ HasCycle) =>
        order_result = Raise("ValueError", MsgCircular)

\* a step depends on itself, after a level was built from a free step
C2_Witness ==
    /\ order_result # NoResult
    /\ order_result.kind = "raise"
    /\ \E n \in WfNames : n \in DepsOf(n)
    /\ \E n \in WfNames : DepsOf(n) = {}

\* C18: when some step depends on a name that is no step of the workflow,
\* the call ends, and it ends by raising the circular-dependency error, with
\* or without a cycle in the graph: no plan is returned.
C18_DanglingDependencyRaises ==
    ~DepsResolve =>
        /\ order_result = NoResult => ENABLED CallGetExecutionOrder
        /\ order_result # NoResult => order_result = Raise("ValueError", MsgCircular)

\* no cycle, one step free of dependencies and one depending on a name the
\* workflow does not have: the call raised
C18_Witness ==
    /\ order_result # NoResult
    /\ order_result.kind = "raise"
    /\ ~DepsResolve
    /\ ~HasCycle
    /\ \E n \in WfNames : DepsOf(n) = {}

SetMax(S) == CHOOSE x \in S : \A y \in S : y <= x

\* predecessors on the longest dependency chain ending at a step of an
\* acyclic workflow whose dependencies resolve
RECURSIVE Depth(_)
Depth(n) ==
    IF DepsOf(n) = {} THEN 0 ELSE 1 + SetMax({Depth(dep) : dep \in DepsOf(n)})

\* C19: in a returned plan every step stands in the earliest possible
\* level: the first level holds exactly the steps without dependencies, a
\* step whose longest dependency chain has k predecessors stands in level k
\* (counted from 0), every step of a later level has a dependency in the
\* level just before, and no level is empty.
C19_EarliestLevel ==
    (order_result # NoResult /\ order_result.kind = "return"
        /\ ~HasCycle /\ DepsResolve) =>
        LET order == order_result.value
        IN  /\ \A n \in WfNames : LevelOf(order, n) = Depth(n) + 1
            /\ \A k \in 1..Len(order) : order[k] # << >>
            /\ Len(order) > 0 =>
                   Range(order[1]) = {n \in WfNames : DepsOf(n) = {}}
            /\ \A k \in 2..Len(order) : \A n \in Range(order[k]) :
                   DepsOf(n) \cap Range(order[k - 1]) # {}

\* a step with a short and a long chain behind it stands after the long one
C19_Witness ==
    /\ order_result # NoResult
    /\ order_result.kind = "return"
    /\ Len(order_result.value) = 3
    /\ \E n \in Range(order_result.value[3]) :
           DepsOf(n) \cap Range(order_result.value[1]) # {}

(***************************************************************************)
(* Properties of WorkflowEngine.execute, checked under Spec.               *)
(***************************************************************************)
Started(t) == t.kind \in {"running", "return", "raise"}
LevelsOf(r) == 1..Len(plan[r])
StateOf(r) == execution_state[eid[r]]
Failed(r) == {s \in DOMAIN task[r] : task[r][s].kind = "raise"}
StrategyOf(r, s) == PlanFor(s, task[r][s].message).strategy

\* C3: levels are a hard barrier: a step of a level is started only when
\* every step of every earlier level has reached a terminal outcome.
C3_LevelBarrier ==
    \A r \in Runs : \A k \in LevelsOf(r) : \A s \in Range(plan[r][k]) :
        Started(task[r][s]) =>
            \A j \in 1..(k - 1) : \A q \in Range(plan[r][j]) : Terminal(task[r][q])

\* the second level is started after the two steps of the first level ran
\* side by side and ended differently
C3_Witness ==
    /\ pc[1] = "gather"
    /\ run_wf[1] = WfFanIn
    /\ task[1]["extract"].kind = "raise"
    /\ task[1]["validate"].kind = "return"
    /\ task[1]["status"] = TaskRunning

\* C4: once a step fails with an error whose recovery plan is ESCALATE, no
\* step of a later level is started, and the run ends with status failed.
C4_EscalateStopsRun ==
    \A r \in Runs : \A k \in LevelsOf(r) : \A s \in Range(plan[r][k]) :
        (s \in Failed(r) /\ StrategyOf(r, s) = "escalate") =>
            /\ \A j \in (k + 1)..Len(plan[r]) : \A q \in Range(plan[r][j]) :
                   ~Started(task[r][q])
            /\ pc[r] = "done" => StateOf(r)["status"] = PyStr("failed")

\* C5: a step whose failure is planned SKIP ends complete with no result
\* (an entry in results holding None), and a run whose only failures are
\* skipped ends completed.
C5_SkipMarksStepComplete ==
    \A r \in Runs : pc[r] = "done" =>
        /\ \A s \in Failed(r) : StrategyOf(r, s) = "skip" =>
               /\ s \in DOMAIN StateOf(r)["results"].dict
               /\ StateOf(r)["results"].dict[s] = None
        /\ (\A s \in Failed(r) : StrategyOf(r, s) = "skip") =>
               StateOf(r)["status"] = PyStr("completed")

\* C6: when a call of execute has ended, by return or by raising, the state
\* it created is completed or failed and carries completed_at.
C6_StateFinalized ==
    \A r \in Runs : pc[r] \in {"done", "raised"} =>
        /\ StateOf(r)["status"] \in {PyStr("completed"), PyStr("failed")}
        /\ "completed_at" \in DOMAIN StateOf(r)

\* C7: when execute has returned, every step that failed has the entry
\* {status: failed, error} under its name in the state of the run.
C7_FailuresRecorded ==
    \A r \in Runs : pc[r] = "done" =>
        \A s \in Failed(r) :
            /\ s \in DOMAIN StateOf(r)
            /\ StateOf(r)[s] = FailureRecord(task[r][s].message)

\* C9: a step whose failure is planned RETRY is invoked again until an
\* invocation succeeds or max_attempts re-invocations are used up: a run
\* ends with such a step failed only after the budget was spent.
C9_RetryBudgetSpent ==
    \A r \in Runs : pc[r] = "done" =>
        \A s \in Failed(r) : StrategyOf(r, s) = "retry" =>
            LET budget == PlanFor(s, task[r][s].message).max_attempts
            IN  /\ invoked[r][s] >= budget
                /\ invoked[r][s] <= 1 + budget

\* C11: execute(workflow, resume_from = s) runs no step of a level earlier
\* than the level of s: such a step is never started.
C11_ResumeSkipsEarlierLevels ==
    \A r \in Runs : \A k \in LevelsOf(r) : \A j \in 1..(k - 1) :
        (resume[r] # None /\ resume[r].str \in Range(plan[r][k])) =>
            \A q \in Range(plan[r][j]) : ~Started(task[r][q])

StateStatuses == {PyStr("running"), PyStr("completed"), PyStr("failed")}

\* C14: the status field of every ExecutionState is one of running,
\* completed, failed, whatever the step names of the workflow, and recording
\* a step's result or failure leaves the state's own fields in place: the
\* workflow name, the results mapping and the start timestamp.
C14_StateFieldsKept ==
    \A r \in Runs :
        pc[r] # "idle" =>
            /\ StateOf(r)["status"] \in StateStatuses
            /\ StateOf(r)["workflow"] = PyStr(run_wf[r].name)
            /\ DOMAIN StateOf(r)["results"] = {"dict"}
            /\ DOMAIN StateOf(r)["started_at"] = {"time"}

(***************************************************************************)
(* Properties of several calls on one engine, checked under SpecRuns.      *)
(***************************************************************************)
\* C10: two calls of execute never work under the same execution_id.
C10_DistinctExecutionIds ==
    \A r1, r2 \in Runs :
        (r1 # r2 /\ pc[r1] # "idle" /\ pc[r2] # "idle") => eid[r1] # eid[r2]

(***************************************************************************)
(* Properties of StepExecutor.execute, checked under SpecExec.             *)
(***************************************************************************)
Ended == x_pc \in {"returned", "raised"}
Attempts == Len(x_outcomes)

StartTime == execution_metrics[x_step]["start_time"]

\* C15: the wait after failed attempt i, by timeout or by another error, is
\* exactly 2^i when attempt i is not the final one, so attempt i begins
\* 2^i - 1 time units after the call began; every failed attempt but the
\* final one is followed by a wait and the final attempt by none.
C15_BackoffDoubles ==
    /\ \A i \in 1..Len(x_sleeps) :
           /\ x_sleeps[i] = 2 ^ (i - 1)
           /\ x_outcomes[i].out \in {"timeout", "raise"}
    /\ x_pc = "sleep" => Len(x_sleeps) = Attempts /\ Attempts < max_retries
    /\ x_pc = "await" =>
           /\ Len(x_sleeps) = Attempts
           /\ x_attempt = Attempts
           /\ x_time - StartTime = 2 ^ x_attempt - 1
    /\ (Ended /\ Attempts > 0) => Len(x_sleeps) = Attempts - 1
    /\ (Ended /\ Attempts = 0) => Len(x_sleeps) = 0

\* a call that waited 1, 2 and 4 after a timeout and two errors, and did
\* not wait after its final attempt
C15_Witness ==
    /\ max_retries = 4
    /\ Ended
    /\ Attempts = 4
    /\ x_sleeps = <<1, 2, 4>>
    /\ x_outcomes[1].out = "timeout"
    /\ x_outcomes[2].out = "raise"
    /\ x_outcomes[4].out \in {"timeout", "raise"}

\* the outcome of an attempt whose result the validator rejected
OutRejected == OutRaise("ValueError", MsgValidationFailed)

Metrics(s) == execution_metrics[s]

\* attempts of the current call that have begun
AttemptsBegun == Attempts + (IF x_pc = "await" THEN 1 ELSE 0)

\* the current call returned a result, which passed validation if there was
\* a validator
ReturnedValidated ==
    /\ Attempts > 0
    /\ x_outcomes[Attempts].out = "return"
    /\ x_validate => validate(x_outcomes[Attempts].value)

\* the metrics of the step of the current call tell what the call did
MetricsSound ==
    x_calls > 0 =>
        /\ x_step \in DOMAIN execution_metrics
        /\ Metrics(x_step)["attempts"] = AttemptsBegun
        /\ Metrics(x_step)["success"] <=> ReturnedValidated
        /\ "duration" \in DOMAIN Metrics(x_step) <=> ReturnedValidated

\* no step's attempt count goes down in the step taken
AttemptsNeverDecrease ==
    \A s \in DOMAIN execution_metrics :
        /\ s \in DOMAIN execution_metrics'
        /\ execution_metrics'[s]["attempts"] >= Metrics(s)["attempts"]

\* C17 as stated: over any sequence of calls the attempt count of a step
\* never decreases and never exceeds the attempts made, and success is true
\* with a duration only if an attempt returned a validated result.
C17_AttemptsNeverDecreaseOverCalls ==
    /\ []MetricsSound
    /\ [][AttemptsNeverDecrease]_vars

\* C17 amended: within one call the attempt count of the call's step never
\* decreases and equals the attempts of that call begun so far; success is
\* true with a duration only if an attempt of that call returned a validated
\* result; a new call for a step replaces that step's metrics by fresh ones
\* (no success, no duration, attempts 0, or 1 when max_retries > 0) and no
\* call touches the metrics of another step.
C17_AttemptsCountedPerCall ==
    /\ []MetricsSound
    /\ [][x_calls' = x_calls => AttemptsNeverDecrease]_vars
    /\ [][x_calls' # x_calls =>
              /\ execution_metrics'[x_step']["attempts"] =
                     (IF max_retries > 0 THEN 1 ELSE 0)
              /\ ~execution_metrics'[x_step']["success"]
              /\ "duration" \notin DOMAIN execution_metrics'[x_step']]_vars
    /\ [][\A s \in DOMAIN execution_metrics :
              s # x_step' => (s \in DOMAIN execution_metrics'
                              /\ execution_metrics'[s] = Metrics(s))]_vars

\* the second call for the one step, begun after a first call of four
\* attempts (waits 1 + 2 + 4): the step's count is back at 1
C17_Witness ==
    /\ x_calls = 2
    /\ DOMAIN execution_metrics = {x_step}
    /\ x_time = 7
    /\ x_pc = "await"
    /\ Metrics(x_step)["attempts"] = 1

\* C20: with max_retries = 0 the work unit is never invoked: a call returns
\* None at once, without raising and without waiting, and leaves the step's
\* metrics at 0 attempts with success false; a call with max_retries >= 1
\* whose attempts all timed out returns the same value.
C20_NoAttemptsWithoutRetries ==
    /\ (max_retries = 0 /\ x_calls > 0) =>
           /\ x_pc = "returned"
           /\ Attempts = 0
           /\ x_sleeps = << >>
           /\ x_result = Return(None)
           /\ Metrics(x_step)["attempts"] = 0
           /\ ~Metrics(x_step)["success"]
           /\ "duration" \notin DOMAIN Metrics(x_step)
    /\ (max_retries > 0 /\ Ended /\ \A i \in 1..Attempts : x_outcomes[i] = OutTimeout) =>
           x_result = Return(None)

\* the second call on an executor built with max_retries = 0 has returned
C20_Witness ==
    /\ max_retries = 0
    /\ x_calls = 2
    /\ x_pc = "returned"
    /\ x_result = Return(None)
    /\ Metrics(x_step)["attempts"] = 0

(***************************************************************************)
(* Properties of RecoveryPlanner.plan_recovery, checked under SpecPlan.    *)
(***************************************************************************)
\* the policy table: strategy, max_attempts, escalation_enabled
PolicyRow(category) ==
    CASE category = "timeout" -> <<"retry", 3, TRUE>>
      [] category = "resource_exhausted" -> <<"retry", 5, FALSE>>
      [] category = "invalid_input" -> <<"skip", 1, TRUE>>
      [] OTHER -> <<"escalate", 0, TRUE>>

PolicyOf(p) == <<p.strategy, p.max_attempts, p.escalation_enabled>>

SamePlanCategory(i, j) == p_calls[i].error_category = p_calls[j].error_category

\* C12 as stated: every call yields the policy row of its category, and the
\* whole RecoveryPlan returned is the same for two calls with the same
\* category, whatever their step names and contexts.
C12_PlanIndependentOfStep ==
    /\ \A i \in DOMAIN p_calls :
           PolicyOf(p_calls[i].plan) = PolicyRow(p_calls[i].error_category)
    /\ \A i, j \in DOMAIN p_calls :
           SamePlanCategory(i, j) => p_calls[i].plan = p_calls[j].plan

\* C12 amended: every call yields the policy row of its category (timeout ->
\* RETRY, 3, true; resource_exhausted -> RETRY, 5, false; invalid_input ->
\* SKIP, 1, true; any other -> ESCALATE, 0, true); strategy, max_attempts and
\* escalation_enabled do not depend on the step name or the context, and the
\* plan is the same for two calls with the same category and step name.
C12_PolicyRowByCategory ==
    /\ \A i \in DOMAIN p_calls :
           PolicyOf(p_calls[i].plan) = PolicyRow(p_calls[i].error_category)
    /\ \A i, j \in DOMAIN p_calls :
           SamePlanCategory(i, j) =>
               /\ PolicyOf(p_calls[i].plan) = PolicyOf(p_calls[j].plan)
               /\ p_calls[i].step_name = p_calls[j].step_name =>
                      p_calls[i].plan = p_calls[j].plan

\* two calls for the resource_exhausted category that differ in step name
\* and in context
C12_Witness ==
    \E i, j \in DOMAIN p_calls :
        /\ p_calls[i].error_category = "resource_exhausted"
        /\ p_calls[j].error_category = "resource_exhausted"
        /\ p_calls[i].step_name # p_calls[j].step_name
        /\ p_calls[i].context # p_calls[j].context
        /\ p_calls[i].plan.max_attempts = 5

(***************************************************************************)
(* Properties of ErrorAnalyzer.analyze, checked under SpecAnalyze.         *)
(***************************************************************************)
Analyzed == a_result # NoResult

Occurs(word) == Contains(word, a_error)

\* the category the message should get, pattern by pattern in table order
ExpectedCategory ==
    CASE Occurs(WordTimeout) -> "timeout"
      [] ~Occurs(WordTimeout) /\ Occurs(WordResource) -> "resource_exhausted"
      [] ~Occurs(WordTimeout) /\ ~Occurs(WordResource) /\ Occurs(WordInvalid) ->
             "invalid_input"
      [] ~Occurs(WordTimeout) /\ ~Occurs(WordResource) /\ ~Occurs(WordInvalid)
             /\ Occurs(WordConnection) -> "external_service"
      [] OTHER -> "unknown"

\* the fixed list of each category
FixedRecommendations(category) ==
    CASE category = "timeout" ->
             <<"Increase timeout threshold", "Optimize step performance",
               "Split into smaller steps">>
      [] category = "resource_exhausted" ->
             <<"Increase resource allocation", "Implement rate limiting",
               "Add step batching">>
      [] category = "invalid_input" ->
             <<"Validate input data", "Add data transformation",
               "Check upstream step output">>
      [] category = "external_service" ->
             <<"Check service status", "Implement circuit breaker",
               "Add exponential backoff">>
      [] category = "unknown" -> <<"Retry with backoff">>

\* C13: analyze returns the category of the first pattern, in the order
\* timeout, Resource, Invalid, Connection, that occurs in the message, and
\* UNKNOWN when none occurs; the recommendations are the fixed list of the
\* returned category: RESOURCE_EXHAUSTED includes the rate-limiting
\* suggestion and UNKNOWN yields only the retry-with-backoff suggestion.
C13_FirstPatternWins ==
    Analyzed =>
        LET analysis == a_result.value
        IN  /\ a_result.kind = "return"
            /\ analysis.category = ExpectedCategory
            /\ analysis.recommendations = FixedRecommendations(analysis.category)
            /\ analysis.category = "resource_exhausted" =>
                   "Implement rate limiting" \in Range(analysis.recommendations)
            /\ analysis.category = "unknown" =>
                   analysis.recommendations = <<"Retry with backoff">>

\* a message where a later pattern stands before an earlier one: "Resource
\* timeout" is classified TIMEOUT
C13_Witness ==
    /\ Analyzed
    /\ a_error = WordResource \o <<" ">> \o WordTimeout
    /\ a_result.value.category = "timeout"

====
